---- MODULE Spec2Model ----
(***************************************************************************)
(* Lane-crossing runner (script.js): move queue and validation, step       *)
(* animation, world timeline, traffic, collision and restart, plus the     *)
(* rejection-sampling row generator.                                       *)
(*                                                                         *)
(* Units.  World coordinates are kept in HALF world units so that every    *)
(* quantity of the source is an integer: a box of size s centred at c      *)
(* spans [2c - s, 2c + s] half units.  Time is kept in tenths of a second. *)
(* Colours, tree heights and the z axis are left out: they never influence *)
(* the queue, the position, the timeline or the x/y overlap test (on z the *)
(* player box [0,20] always meets the wheels [0,12] of every vehicle).     *)
(***************************************************************************)
EXTENDS Integers, Sequences, FiniteSets, TLC

VARIABLES
    metadata,        \* generated rows; metadata[i] is row index i (JS metadata[i-1])
    currentRow,      \* position.currentRow
    currentTile,     \* position.currentTile
    movesQueue,      \* pending moves, head first
    playerX,         \* player.position.x, half units
    playerY,         \* player.position.y, half units
    moveRunning,     \* moveClock.running
    moveElapsed,     \* time since moveClock.start(), tenths, saturated at stepTime
    animationLoop,   \* TRUE while renderer.setAnimationLoop holds the game loop
    score,           \* the number shown by score3D
    rejected,        \* history: the direction queueMove has just refused, or "none"
    stepped,         \* history: the last step was a tick on which stepCompleted ran
    animated,        \* history: a tick has animated the present head of the queue
    pressed,         \* history of the scenario of repeated forward presses: presses so far
    aframe,          \* A-Frame variant: pending setTimeout calls and the move of player-mover
    gen              \* state of one run of a row generator (sampling loop)

vars == <<metadata, currentRow, currentTile, movesQueue, playerX, playerY,
          moveRunning, moveElapsed, animationLoop, score, rejected, stepped,
          animated, pressed, gen, aframe>>

gameVars == <<metadata, currentRow, currentTile, movesQueue, playerX, playerY,
              moveRunning, moveElapsed, animationLoop, score, rejected, stepped,
              animated, pressed, aframe>>

(***************************************************************************)
(* Program constants                                                       *)
(***************************************************************************)
minTileIndex == -8
maxTileIndex == 8
tileSize == 42
stepTime == 2            \* 0.2 s, in tenths of a second
treesPerForest == 4
carsPerLane == 3
trucksPerLane == 2
carFootprint == 1        \* tiles marked on each side of a car
truckFootprint == 2      \* tiles marked on each side of a truck

(***************************************************************************)
(* Bounds of the model                                                     *)
(***************************************************************************)
\* rows appended by one addRows call (the source appends 20)
BatchSize == 2
\* addRows runs when currentRow > Len(metadata) - Lookahead (the source uses 10)
Lookahead == BatchSize \div 2
\* the input side stops asking for moves when this many are pending
MaxQueue == 2
\* the input side stops asking for forward moves beyond this projected row
MaxRow == 3
\* forward presses of the scenario of repeated presses
Presses == 4
\* passes of one sampling loop thrown away in a row that the model tells apart
MaxRetries == 2
\* rows below 0 and lanes beyond the outermost ones from which input is
\* still followed (teleport variant)
MaxDrift == 1

Directions == {"forward", "backward", "left", "right"}
Tiles == minTileIndex..maxTileIndex
speeds == {100, 125, 150}

\* frame deltas (tenths of a second) the host loop delivers
Deltas == {21}

(***************************************************************************)
(* Rows                                                                    *)
(***************************************************************************)
ForestRow(tiles) ==
    [type |-> "forest", trees |-> tiles, direction |-> FALSE, speed |-> 0,
     vehicles |-> <<>>]

\* Car(...) / Truck(...): ref.position.x = initialTileIndex * tileSize
Vehicle(initialTileIndex) ==
    [initialTileIndex |-> initialTileIndex, x |-> 2 * initialTileIndex * tileSize]

LaneRow(type, direction, speed, tiles) ==
    [type |-> type, trees |-> <<>>, direction |-> direction, speed |-> speed,
     vehicles |-> [i \in 1..Len(tiles) |-> Vehicle(tiles[i])]]

\* rows generateRow can return, as drawn by the timeline of this model
forestRow == ForestRow(<<0, 2, -3, 7>>)
woodRow == ForestRow(<<-1, 3, -6, 8>>)
carRow == LaneRow("car", TRUE, 100, <<0, -5, 5>>)
truckRow == LaneRow("truck", FALSE, 100, <<5, -5>>)

\* generateRows(amount): amount rows, each from generateRow.  The timeline of
\* this model draws either a batch of road (car lane, truck lane, ...) or a
\* batch of forest (two different forests in turn).
Alternate(odd, even, amount) ==
    [i \in 1..amount |-> IF i % 2 = 1 THEN odd ELSE even]

generateRows(amount) ==
    {Alternate(carRow, truckRow, amount), Alternate(forestRow, woodRow, amount)}

(***************************************************************************)
(* Row generator: generateRow and its three rejection-sampling generators  *)
(***************************************************************************)
\* the components of the A-Frame variant before any move and any collision:
\* timers holds the time left of each pending setTimeout (tenths of a
\* second, oldest first), startPosition and targetPosition are those of
\* player-mover
AFrameIdle ==
    [timers |-> <<>>, startPosition |-> [x |-> 0, y |-> 0],
     targetPosition |-> [x |-> 0, y |-> 0]]

\* gen.type "idle": no generator is running; gen.row holds the row returned
\* last (as a sequence of at most one row).  gen.retries is history: the
\* passes of the running do-while loop that were thrown away, counted up to
\* MaxRetries.
GenIdle(row) ==
    [type |-> "idle", direction |-> FALSE, speed |-> 0, occupiedTiles |-> {},
     tiles |-> <<>>, retries |-> 0, row |-> row]

\* length of the Array.from of each generator
Amount(type) ==
    CASE type = "forest" -> treesPerForest
      [] type = "car" -> carsPerLane
      [] OTHER -> trucksPerLane

\* tiles added to occupiedTiles when tileIndex is accepted
\* fault variant: an accepted tile is not added to occupiedTiles
Marked_nothing(type, tileIndex) == {}

\* fault variant: an accepted tile closes every lane of the row
Marked_wholeRow(type, tileIndex) == minTileIndex..maxTileIndex

\* fault variant: only the accepted tile itself is added, for every row type
Marked_centreOnly(type, tileIndex) == {tileIndex}

Marked(type, tileIndex) ==
    CASE type = "forest" -> {tileIndex}
      [] type = "car" -> (tileIndex - carFootprint)..(tileIndex + carFootprint)
      [] OTHER -> (tileIndex - truckFootprint)..(tileIndex + truckFootprint)

\* generateRow: pick the type; the lane generators draw direction and speed
generateRow(type, direction, speed) ==
    /\ gen.type = "idle"
    /\ gen' = [type |-> type,
               direction |-> IF type = "forest" THEN FALSE ELSE direction,
               speed |-> IF type = "forest" THEN 0 ELSE speed,
               occupiedTiles |-> {}, tiles |-> <<>>, retries |-> 0, row |-> <<>>]
    /\ UNCHANGED gameVars

\* one pass of the do-while loop: draw tileIndex with randInt; a draw that is
\* in occupiedTiles is thrown away and the loop repeats
Sample(tileIndex) ==
    /\ gen.type # "idle"
    /\ Len(gen.tiles) < Amount(gen.type)
    /\ gen' = IF tileIndex \in gen.occupiedTiles
              THEN [gen EXCEPT !.retries = IF @ < MaxRetries THEN @ + 1 ELSE @]
              ELSE [gen EXCEPT !.occupiedTiles = @ \cup Marked(gen.type, tileIndex),
                               !.tiles = Append(@, tileIndex),
                               !.retries = 0]
    /\ UNCHANGED gameVars

\* the generator returns its row
ReturnRow ==
    /\ gen.type # "idle"
    /\ Len(gen.tiles) = Amount(gen.type)
    /\ gen' = GenIdle(<<IF gen.type = "forest" THEN ForestRow(gen.tiles)
                        ELSE LaneRow(gen.type, gen.direction, gen.speed, gen.tiles)>>)
    /\ UNCHANGED gameVars

(***************************************************************************)
(* Move validation                                                         *)
(***************************************************************************)
ApplyMove(pos, direction) ==
    CASE direction = "forward"  -> [rowIndex |-> pos.rowIndex + 1, tileIndex |-> pos.tileIndex]
      [] direction = "backward" -> [rowIndex |-> pos.rowIndex - 1, tileIndex |-> pos.tileIndex]
      [] direction = "left"     -> [rowIndex |-> pos.rowIndex, tileIndex |-> pos.tileIndex - 1]
      [] direction = "right"    -> [rowIndex |-> pos.rowIndex, tileIndex |-> pos.tileIndex + 1]
      [] OTHER                  -> pos

RECURSIVE calculateFinalPosition(_, _)
calculateFinalPosition(currentPosition, moves) ==
    IF moves = <<>> THEN currentPosition
    ELSE calculateFinalPosition(ApplyMove(currentPosition, Head(moves)), Tail(moves))

\* metadata[rowIndex - 1] of the source: undefined below 1 and beyond the end
RowAt(md, rowIndex) ==
    IF rowIndex >= 1 /\ rowIndex <= Len(md) THEN <<md[rowIndex]>> ELSE <<>>

HasTree(row, tileIndex) ==
    /\ row.type = "forest"
    /\ \E i \in 1..Len(row.trees) : row.trees[i] = tileIndex

\* fault variant: the right edge is tested one tile too far out
HitsEdge_farRightEdge(finalPosition) ==
    \/ finalPosition.rowIndex = -1
    \/ finalPosition.tileIndex = minTileIndex - 1
    \/ finalPosition.tileIndex = maxTileIndex + 2

HitsEdge(finalPosition) ==
    \/ finalPosition.rowIndex = -1
    \/ finalPosition.tileIndex = minTileIndex - 1
    \/ finalPosition.tileIndex = maxTileIndex + 1

HitsTree(md, finalPosition) ==
    LET finalRow == RowAt(md, finalPosition.rowIndex)
    IN  finalRow # <<>> /\ HasTree(finalRow[1], finalPosition.tileIndex)

\* fault variant: a tile under a vehicle of a lane row is refused as well
endsUpInValidPosition_vehiclesBlock(md, currentPosition, moves) ==
    LET finalPosition == calculateFinalPosition(currentPosition, moves)
        finalRow == RowAt(md, finalPosition.rowIndex)
    IN  /\ ~HitsEdge(finalPosition)
        /\ ~HitsTree(md, finalPosition)
        /\ (finalRow # <<>> /\ finalRow[1].type \in {"car", "truck"}) =>
               \A i \in 1..Len(finalRow[1].vehicles) :
                   \/ finalRow[1].vehicles[i].x > 2 * tileSize * (finalPosition.tileIndex + 1)
                   \/ finalRow[1].vehicles[i].x < 2 * tileSize * (finalPosition.tileIndex - 1)

\* fault variant: the tree test is left out
endsUpInValidPosition_noTreeTest(md, currentPosition, moves) ==
    ~HitsEdge(calculateFinalPosition(currentPosition, moves))

endsUpInValidPosition(md, currentPosition, moves) ==
    LET finalPosition == calculateFinalPosition(currentPosition, moves)
    IN  ~HitsEdge(finalPosition) /\ ~HitsTree(md, finalPosition)

Committed == [rowIndex |-> currentRow, tileIndex |-> currentTile]

(***************************************************************************)
(* Input handler                                                           *)
(***************************************************************************)
\* queueMove(direction): validate against the committed position followed by
\* every pending move and the new one; push only when valid.
\* fault variant: the pending moves are left out of the validation
queueMove_committedOnly(direction) ==
    LET isValidMove == endsUpInValidPosition(metadata, Committed, <<direction>>)
    IN  /\ movesQueue' = IF isValidMove THEN Append(movesQueue, direction)
                         ELSE movesQueue
        /\ rejected' = IF isValidMove THEN "none" ELSE direction
        /\ stepped' = FALSE
        /\ UNCHANGED <<metadata, currentRow, currentTile, playerX, playerY,
                       moveRunning, moveElapsed, animationLoop, score, animated, gen, aframe>>

\* fault variant: a valid move is put at the front of the queue
queueMove_unshift(direction) ==
    LET isValidMove == endsUpInValidPosition(metadata, Committed,
                                             Append(movesQueue, direction))
    IN  /\ movesQueue' = IF isValidMove THEN <<direction>> \o movesQueue
                         ELSE movesQueue
        /\ rejected' = IF isValidMove THEN "none" ELSE direction
        /\ stepped' = FALSE
        /\ UNCHANGED <<metadata, currentRow, currentTile, playerX, playerY,
                       moveRunning, moveElapsed, animationLoop, score, animated, gen, aframe>>

\* fault variant: the early return on an invalid move is missing
queueMove_noEarlyReturn(direction) ==
    LET isValidMove == endsUpInValidPosition(metadata, Committed,
                                             Append(movesQueue, direction))
    IN  /\ movesQueue' = Append(movesQueue, direction)
        /\ rejected' = IF isValidMove THEN "none" ELSE direction
        /\ stepped' = FALSE
        /\ UNCHANGED <<metadata, currentRow, currentTile, playerX, playerY,
                       moveRunning, moveElapsed, animationLoop, score, animated, gen, aframe>>

queueMove(direction) ==
    LET isValidMove == endsUpInValidPosition(metadata, Committed,
                                             Append(movesQueue, direction))
    IN  /\ movesQueue' = IF isValidMove THEN Append(movesQueue, direction)
                         ELSE movesQueue
        /\ rejected' = IF isValidMove THEN "none" ELSE direction
        /\ stepped' = FALSE
        /\ UNCHANGED <<metadata, currentRow, currentTile, playerX, playerY,
                       moveRunning, moveElapsed, animationLoop, score, animated, gen, aframe>>

(***************************************************************************)
(* One frame: animateVehicles, animatePlayer, hitTest                      *)
(***************************************************************************)
beginningOfRow == 2 * (minTileIndex - 2) * tileSize
endOfRow == 2 * (maxTileIndex + 2) * tileSize

\* distance covered in delta tenths of a second, in half units
Travel(speed, delta) == (2 * speed * delta) \div 10

\* fault variant: a wrapped vehicle gets the lane it restarts from as its
\* initial lane
MoveVehicle_reseats(rowData, v, delta) ==
    IF rowData.direction
    THEN (IF v.x > endOfRow
          THEN [initialTileIndex |-> minTileIndex - 2, x |-> beginningOfRow]
          ELSE [v EXCEPT !.x = v.x + Travel(rowData.speed, delta)])
    ELSE (IF v.x < beginningOfRow
          THEN [initialTileIndex |-> maxTileIndex + 2, x |-> endOfRow]
          ELSE [v EXCEPT !.x = v.x - Travel(rowData.speed, delta)])

\* fault variant: a vehicle is wrapped as soon as it is on the boundary
MoveVehicle_wrapsOnBoundary(rowData, v, delta) ==
    IF rowData.direction
    THEN [v EXCEPT !.x = IF v.x >= endOfRow THEN beginningOfRow
                         ELSE v.x + Travel(rowData.speed, delta)]
    ELSE [v EXCEPT !.x = IF v.x <= beginningOfRow THEN endOfRow
                         ELSE v.x - Travel(rowData.speed, delta)]

MoveVehicle(rowData, v, delta) ==
    IF rowData.direction
    THEN [v EXCEPT !.x = IF v.x > endOfRow THEN beginningOfRow
                         ELSE v.x + Travel(rowData.speed, delta)]
    ELSE [v EXCEPT !.x = IF v.x < beginningOfRow THEN endOfRow
                         ELSE v.x - Travel(rowData.speed, delta)]

animateVehicles(md, delta) ==
    [r \in 1..Len(md) |->
        IF md[r].type \in {"car", "truck"}
        THEN [md[r] EXCEPT !.vehicles =
                 [i \in 1..Len(md[r].vehicles) |-> MoveVehicle(md[r], md[r].vehicles[i], delta)]]
        ELSE md[r]]

\* THREE.MathUtils.lerp(start, end, progress) with progress = elapsed / stepTime
Lerp(start, end, elapsed) == start + ((end - start) * elapsed) \div stepTime

\* setPosition(progress): interpolate from the committed tile towards the
\* target of the head move
setPosition(row, tile, head, elapsed) ==
    LET startX == 2 * tile * tileSize
        startY == 2 * row * tileSize
        endX == CASE head = "left" -> startX - 2 * tileSize
                  [] head = "right" -> startX + 2 * tileSize
                  [] OTHER -> startX
        endY == CASE head = "forward" -> startY + 2 * tileSize
                  [] head = "backward" -> startY - 2 * tileSize
                  [] OTHER -> startY
    IN  [x |-> Lerp(startX, endX, elapsed), y |-> Lerp(startY, endY, elapsed)]

\* stepCompleted(): the committed position after the head move is applied
\* fault variant: left and right are exchanged when the step is committed
stepCompleted_mirrored(pos, direction) ==
    [rowIndex |-> pos.rowIndex + (IF direction = "forward" THEN 1 ELSE 0)
                               - (IF direction = "backward" THEN 1 ELSE 0),
     tileIndex |-> pos.tileIndex + (IF direction = "left" THEN 1 ELSE 0)
                                 - (IF direction = "right" THEN 1 ELSE 0)]

\* fault variant: the delta of the head is applied twice
stepCompleted_doubleStep(pos, direction) ==
    [rowIndex |-> pos.rowIndex + (IF direction = "forward" THEN 2 ELSE 0)
                               - (IF direction = "backward" THEN 2 ELSE 0),
     tileIndex |-> pos.tileIndex - (IF direction = "left" THEN 2 ELSE 0)
                                 + (IF direction = "right" THEN 2 ELSE 0)]

\* fault variant: a backward step does not move the committed row
stepCompleted_backwardLost(pos, direction) ==
    [rowIndex |-> pos.rowIndex + (IF direction = "forward" THEN 1 ELSE 0),
     tileIndex |-> pos.tileIndex - (IF direction = "left" THEN 1 ELSE 0)
                                 + (IF direction = "right" THEN 1 ELSE 0)]

\* fault variant: a forward step does not advance the committed row
stepCompleted_forwardLost(pos, direction) ==
    [rowIndex |-> pos.rowIndex - (IF direction = "backward" THEN 1 ELSE 0),
     tileIndex |-> pos.tileIndex - (IF direction = "left" THEN 1 ELSE 0)
                                 + (IF direction = "right" THEN 1 ELSE 0)]

stepCompleted(pos, direction) ==
    [rowIndex |-> pos.rowIndex + (IF direction = "forward" THEN 1 ELSE 0)
                               - (IF direction = "backward" THEN 1 ELSE 0),
     tileIndex |-> pos.tileIndex - (IF direction = "left" THEN 1 ELSE 0)
                                 + (IF direction = "right" THEN 1 ELSE 0)]

\* the condition of stepCompleted under which addRows is called
\* fault variant: addRows is only called once the player has left the timeline
NeedsRows_noLookahead(row, md) == row > Len(md)

\* fault variant: addRows is called after every step
NeedsRows_always(row, md) == TRUE

NeedsRows(row, md) == row > Len(md) - Lookahead

\* bounding box of a vehicle (Box3.setFromObject) relative to ref.position,
\* as half extents in half units: car body 60 x 30 with wheels 33 deep,
\* truck cargo and cabin spanning -50..50 with cargo 35 deep
HalfLength(type) == IF type = "truck" THEN 100 ELSE 60
HalfDepth(type) == IF type = "truck" THEN 35 ELSE 33
\* player box: size tileSize * 0.5 in x and y
playerHalf == tileSize \div 2

Abs(n) == IF n < 0 THEN -n ELSE n

\* Box3.intersectsBox on x and y (touching boxes intersect)
Intersects(px, py, type, vx, rowIndex) ==
    /\ Abs(px - vx) <= playerHalf + HalfLength(type)
    /\ Abs(py - 2 * rowIndex * tileSize) <= playerHalf + HalfDepth(type)

\* hitTest(): does some vehicle of the committed row meet the player box
hitTest(md, row, px, py) ==
    LET r == RowAt(md, row)
    IN  /\ r # <<>>
        /\ r[1].type \in {"car", "truck"}
        /\ \E i \in 1..Len(r[1].vehicles) :
              Intersects(px, py, r[1].type, r[1].vehicles[i].x, row)

\* updateScore3D(): the score shown becomes position.currentRow
\* fault variant: the score display is not redrawn
updateScore3D_notRedrawn(shown, row) == shown

updateScore3D(shown, row) == row

\* the renderer calls the loop callback only while one is installed;
\* showGameOver installs null, hideGameOver installs the game loop
\* fault variant: the loop keeps being called after showGameOver
LoopRuns_never_stopped == TRUE

LoopRuns == animationLoop

\* fault variant: hitTest runs before animateVehicles and animatePlayer
Tick_hitTestFirst(delta) ==
    /\ LoopRuns
    /\ LET moved == animateVehicles(metadata, delta)
           \* animatePlayer
           idle == movesQueue = <<>>
           elapsed == IF moveRunning
                      THEN (IF moveElapsed + delta >= stepTime THEN stepTime
                            ELSE moveElapsed + delta)
                      ELSE 0
           done == ~idle /\ elapsed >= stepTime
           pos == IF idle THEN [x |-> playerX, y |-> playerY]
                  ELSE setPosition(currentRow, currentTile, Head(movesQueue), elapsed)
           \* stepCompleted
           after == IF done THEN stepCompleted(Committed, Head(movesQueue)) ELSE Committed
       IN  /\ moveRunning' = IF idle THEN moveRunning ELSE ~done
           /\ moveElapsed' = IF idle /\ ~moveRunning THEN moveElapsed ELSE elapsed
           /\ playerX' = pos.x
           /\ playerY' = pos.y
           /\ movesQueue' = IF done THEN Tail(movesQueue) ELSE movesQueue
           /\ currentRow' = after.rowIndex
           /\ currentTile' = after.tileIndex
           /\ IF done /\ NeedsRows(after.rowIndex, moved)
              THEN \E newMetadata \in generateRows(BatchSize) :
                       metadata' = moved \o newMetadata
              ELSE metadata' = moved
           /\ score' = IF done THEN updateScore3D(score, after.rowIndex) ELSE score
           \* hitTest on the state the tick found
           /\ animationLoop' = ~hitTest(metadata, currentRow, playerX, playerY)
           /\ rejected' = "none"
           /\ stepped' = done
           /\ animated' = (~idle /\ ~done)
           /\ UNCHANGED <<gen, aframe>>

Tick(delta) ==
    /\ LoopRuns
    /\ LET moved == animateVehicles(metadata, delta)
           \* animatePlayer
           idle == movesQueue = <<>>
           elapsed == IF moveRunning
                      THEN (IF moveElapsed + delta >= stepTime THEN stepTime
                            ELSE moveElapsed + delta)
                      ELSE 0
           done == ~idle /\ elapsed >= stepTime
           pos == IF idle THEN [x |-> playerX, y |-> playerY]
                  ELSE setPosition(currentRow, currentTile, Head(movesQueue), elapsed)
           \* stepCompleted
           after == IF done THEN stepCompleted(Committed, Head(movesQueue)) ELSE Committed
       IN  /\ moveRunning' = IF idle THEN moveRunning ELSE ~done
           /\ moveElapsed' = IF idle /\ ~moveRunning THEN moveElapsed ELSE elapsed
           /\ playerX' = pos.x
           /\ playerY' = pos.y
           /\ movesQueue' = IF done THEN Tail(movesQueue) ELSE movesQueue
           /\ currentRow' = after.rowIndex
           /\ currentTile' = after.tileIndex
           /\ IF done /\ NeedsRows(after.rowIndex, moved)
              THEN \E newMetadata \in generateRows(BatchSize) :
                       metadata' = moved \o newMetadata
              ELSE metadata' = moved
           /\ score' = IF done THEN updateScore3D(score, after.rowIndex) ELSE score
           \* hitTest -> showGameOver -> setAnimationLoop(null)
           /\ animationLoop' = ~hitTest(metadata', currentRow', playerX', playerY')
           /\ rejected' = "none"
           /\ stepped' = done
           /\ animated' = (~idle /\ ~done)
           /\ UNCHANGED <<gen, aframe>>

(***************************************************************************)
(* Restart                                                                 *)
(***************************************************************************)
\* initializeGame(): initializePlayer, initializeMap, hideGameOver.
\* moveClock is not touched.
\* fault variant: initializePlayer does not clear the moves queue
initializeGame_keepsQueue ==
    /\ currentRow' = 0
    /\ currentTile' = 0
    /\ movesQueue' = movesQueue
    /\ playerX' = 0
    /\ playerY' = 0
    /\ metadata' \in generateRows(BatchSize)
    /\ score' = updateScore3D(score, 0)
    /\ animationLoop' = TRUE
    /\ UNCHANGED <<moveRunning, moveElapsed>>

initializeGame ==
    /\ currentRow' = 0
    /\ currentTile' = 0
    /\ movesQueue' = <<>>
    /\ playerX' = 0
    /\ playerY' = 0
    /\ metadata' \in generateRows(BatchSize)
    /\ score' = updateScore3D(score, 0)
    /\ animationLoop' = TRUE
    /\ UNCHANGED <<moveRunning, moveElapsed>>

\* click on #retry; the button is only visible while the result is shown
\* fault variant: the handler leaves out initializePlayer
Retry_keepsPlayer ==
    /\ ~animationLoop
    /\ metadata' \in generateRows(BatchSize)
    /\ score' = updateScore3D(score, currentRow)
    /\ animationLoop' = TRUE
    /\ rejected' = "none"
    /\ stepped' = FALSE
    /\ UNCHANGED <<currentRow, currentTile, movesQueue, playerX, playerY,
                   moveRunning, moveElapsed, animated, pressed, gen, aframe>>

Retry ==
    /\ ~animationLoop
    /\ initializeGame
    /\ rejected' = "none"
    /\ stepped' = FALSE
    /\ animated' = FALSE
    /\ UNCHANGED <<pressed, gen, aframe>>

Init ==
    /\ metadata \in generateRows(BatchSize)
    /\ currentRow = 0
    /\ currentTile = 0
    /\ movesQueue = <<>>
    /\ playerX = 0
    /\ playerY = 0
    /\ moveRunning = FALSE
    /\ moveElapsed = 0
    /\ animationLoop = TRUE
    /\ score = 0
    /\ rejected = "none"
    /\ stepped = FALSE
    /\ animated = FALSE
    /\ pressed = 0
    /\ aframe = AFrameIdle
    /\ gen = GenIdle(<<>>)

\* a key press or button click, within the bounds of the model
Input ==
    \E direction \in Directions :
        /\ Len(movesQueue) < MaxQueue
        /\ calculateFinalPosition(Committed, Append(movesQueue, direction)).rowIndex <= MaxRow
        /\ queueMove(direction)
        /\ UNCHANGED pressed

Frame == \E delta \in Deltas : Tick(delta) /\ UNCHANGED pressed

Next == Input \/ Frame \/ Retry

Spec == Init /\ [][Next]_vars

\* the generators on their own
StartRow ==
    \E type \in {"car", "truck", "forest"}, direction \in BOOLEAN, speed \in speeds :
        generateRow(type, direction, speed)

Draw == \E tileIndex \in Tiles : Sample(tileIndex)

NextGen == StartRow \/ Draw \/ ReturnRow

InitGen == Init /\ metadata = Alternate(forestRow, woodRow, BatchSize)

SpecGen == InitGen /\ [][NextGen]_vars

\* the generators with fair sampling: randInt is uniform over the lanes, so
\* no lane is left out of the draws for ever, and a generator that has
\* filled its array returns
SpecGenFair ==
    /\ SpecGen
    /\ \A tileIndex \in Tiles : WF_vars(Sample(tileIndex))
    /\ WF_vars(ReturnRow)

\* the scenario of repeated forward presses: from the state a restart leaves,
\* forward is pressed Presses times in all, frames of 0.2 s coming in between
PressDeltas == {2}

Press ==
    /\ pressed < Presses
    /\ queueMove("forward")
    /\ pressed' = pressed + 1

FramePress == \E delta \in PressDeltas : Tick(delta) /\ UNCHANGED pressed

NextPress == Press \/ FramePress

SpecPress == Init /\ [][NextPress]_vars

\* traffic on its own: frames of 1 s over a car lane whose first vehicle has
\* got to some offset (frame times are arbitrary, so every offset between the
\* boundaries and one frame beyond is one a vehicle can be at; the model takes
\* the multiples of 10 world units)
SecondDeltas == {10}
Offsets == {20 * k : k \in -50..60}

WithOffset(row, x) == [row EXCEPT !.vehicles[1].x = x]

InitTraffic ==
    /\ \E direction \in BOOLEAN, speed \in speeds, x \in Offsets :
           metadata = Alternate(WithOffset(LaneRow("car", direction, speed, <<0, -5, 5>>), x),
                                woodRow, BatchSize)
    /\ currentRow = 0
    /\ currentTile = 0
    /\ movesQueue = <<>>
    /\ playerX = 0
    /\ playerY = 0
    /\ moveRunning = FALSE
    /\ moveElapsed = 0
    /\ animationLoop = TRUE
    /\ score = 0
    /\ rejected = "none"
    /\ stepped = FALSE
    /\ animated = FALSE
    /\ pressed = 0
    /\ aframe = AFrameIdle
    /\ gen = GenIdle(<<>>)

FrameSecond == \E delta \in SecondDeltas : Tick(delta) /\ UNCHANGED pressed

SpecTraffic == InitTraffic /\ [][FrameSecond]_vars

(***************************************************************************)
(* The teleport variant (src/unnamed/part_000).  Its queueMove, validation,*)
(* generators, animateVehicles and bounding boxes are those modelled       *)
(* above; animatePlayer, stepCompleted, hitTest and initializeGame differ. *)
(***************************************************************************)
\* movesQueue.shift(): the element taken (undefined from an empty array) and
\* the array left
Shift(queue) ==
    IF queue = <<>> THEN [direction |-> "undefined", rest |-> <<>>]
    ELSE [direction |-> Head(queue), rest |-> Tail(queue)]

\* animatePlayer of the variant: shift a move and put the player object on
\* the tile that move leads to from the committed one
teleport_setPosition(row, tile, direction) ==
    [x |-> 2 * tile * tileSize + (IF direction = "right" THEN 2 * tileSize ELSE 0)
                               - (IF direction = "left" THEN 2 * tileSize ELSE 0),
     y |-> 2 * row * tileSize + (IF direction = "forward" THEN 2 * tileSize ELSE 0)
                              - (IF direction = "backward" THEN 2 * tileSize ELSE 0)]

\* stepCompleted of the variant: shift a move of its own and apply it
teleport_stepCompleted(pos, queue) ==
    LET direction == Shift(queue).direction
    IN  [rowIndex |-> pos.rowIndex + (IF direction = "forward" THEN 1 ELSE 0)
                                   - (IF direction = "backward" THEN 1 ELSE 0),
         tileIndex |-> pos.tileIndex - (IF direction = "left" THEN 1 ELSE 0)
                                     + (IF direction = "right" THEN 1 ELSE 0)]

\* half extent of Box3.setFromObject(player): the body is 15 x 15, half units
teleport_playerHalf == 15

\* hitTest of the variant: the box of the whole player object against the box
\* of every vehicle of the committed row
teleport_hitTest(md, row, px, py) ==
    LET r == RowAt(md, row)
    IN  /\ r # <<>>
        /\ r[1].type \in {"car", "truck"}
        /\ \E i \in 1..Len(r[1].vehicles) :
              /\ Abs(px - r[1].vehicles[i].x) <= teleport_playerHalf + HalfLength(r[1].type)
              /\ Abs(py - 2 * row * tileSize) <= teleport_playerHalf + HalfDepth(r[1].type)

\* animate(): animateVehicles, animatePlayer (which calls stepCompleted),
\* hitTest
teleport_animate(delta) ==
    /\ LoopRuns
    /\ LET moved == animateVehicles(metadata, delta)
           idle == movesQueue = <<>>
           first == Shift(movesQueue)
           pos == IF idle THEN [x |-> playerX, y |-> playerY]
                  ELSE teleport_setPosition(currentRow, currentTile, first.direction)
           after == IF idle THEN Committed
                    ELSE teleport_stepCompleted(Committed, first.rest)
       IN  /\ playerX' = pos.x
           /\ playerY' = pos.y
           /\ movesQueue' = IF idle THEN movesQueue ELSE Shift(first.rest).rest
           /\ currentRow' = after.rowIndex
           /\ currentTile' = after.tileIndex
           /\ IF ~idle /\ NeedsRows(after.rowIndex, moved)
              THEN \E newMetadata \in generateRows(BatchSize) :
                       metadata' = moved \o newMetadata
              ELSE metadata' = moved
           /\ score' = IF idle THEN score ELSE after.rowIndex
           \* hitTest: setAnimationLoop(null) on an intersection
           /\ animationLoop' = ~teleport_hitTest(metadata', currentRow', playerX', playerY')
           /\ rejected' = "none"
           /\ stepped' = ~idle
           /\ UNCHANGED <<moveRunning, moveElapsed, animated, pressed, gen, aframe>>

\* initializeGame of the variant (the #retry click and the squeeze button of
\* a controller): initializePlayer, initializeMap, score "0"; the animation
\* loop is not installed again
teleport_initializeGame ==
    /\ currentRow' = 0
    /\ currentTile' = 0
    /\ movesQueue' = <<>>
    /\ playerX' = 0
    /\ playerY' = 0
    /\ metadata' \in generateRows(BatchSize)
    /\ score' = 0
    /\ rejected' = "none"
    /\ stepped' = FALSE
    /\ UNCHANGED <<animationLoop, moveRunning, moveElapsed, animated, pressed, gen, aframe>>

\* onSelectStart: a controller trigger queues a move, within the bounds of
\* the model
teleport_Input ==
    \E direction \in Directions :
        /\ Len(movesQueue) < MaxQueue
        /\ currentRow \in -MaxDrift..MaxRow
        /\ currentTile \in (minTileIndex - MaxDrift)..(maxTileIndex + MaxDrift)
        /\ calculateFinalPosition(Committed, Append(movesQueue, direction)).rowIndex
               \in -MaxDrift..MaxRow
        /\ queueMove(direction)
        /\ UNCHANGED pressed

teleport_Frame == \E delta \in Deltas : teleport_animate(delta)

NextTeleport == teleport_Input \/ teleport_Frame \/ teleport_initializeGame

SpecTeleport == Init /\ [][NextTeleport]_vars

(***************************************************************************)
(* The controller variant (src/unnamed/part_003).  Generators,             *)
(* animateVehicles, setPosition and stepCompleted are those modelled       *)
(* above; validation, animatePlayer, hitTest and the input handler differ. *)
(***************************************************************************)
controller_endsUpInValidPosition(md, currentPosition, moves) ==
    LET finalPosition == calculateFinalPosition(currentPosition, moves)
    IN  /\ ~(\/ finalPosition.rowIndex = -1
             \/ finalPosition.tileIndex < minTileIndex
             \/ finalPosition.tileIndex > maxTileIndex)
        /\ ~HitsTree(md, finalPosition)

controller_queueMove(direction) ==
    LET isValidMove == controller_endsUpInValidPosition(metadata, Committed,
                                                        Append(movesQueue, direction))
    IN  /\ movesQueue' = IF isValidMove THEN Append(movesQueue, direction)
                         ELSE movesQueue
        /\ rejected' = IF isValidMove THEN "none" ELSE direction
        /\ stepped' = FALSE
        /\ UNCHANGED <<metadata, currentRow, currentTile, playerX, playerY,
                       moveRunning, moveElapsed, animationLoop, score, animated,
                       pressed, gen, aframe>>

\* Box3.setFromObject(player.children[0]): the body, 15 x 15, half units
controller_playerHalf == 15

\* Box3.setFromObject(ref.children[0]): the main box of a car (60 x 30) or
\* the cargo of a truck (70 x 35, 15 behind the centre of the truck, which
\* is turned round when it drives to the left); half extents in half units
controller_bodyCentre(rowData, vx) ==
    IF rowData.type = "car" THEN vx
    ELSE IF rowData.direction THEN vx - 30 ELSE vx + 30
controller_bodyHalfLength(type) == IF type = "car" THEN 60 ELSE 70
controller_bodyHalfDepth(type) == IF type = "car" THEN 30 ELSE 35

\* hitTest of the variant: nothing is tested while moves are pending
controller_hitTest(md, queue, row, px, py) ==
    LET r == RowAt(md, row)
    IN  /\ queue = <<>>
        /\ r # <<>>
        /\ r[1].type \in {"car", "truck"}
        /\ \E i \in 1..Len(r[1].vehicles) :
              /\ Abs(px - controller_bodyCentre(r[1], r[1].vehicles[i].x))
                    <= controller_playerHalf + controller_bodyHalfLength(r[1].type)
              /\ Abs(py - 2 * row * tileSize)
                    <= controller_playerHalf + controller_bodyHalfDepth(r[1].type)

\* animate(): animateVehicles, animatePlayer, hitTest
controller_animate(delta) ==
    /\ LoopRuns
    /\ LET moved == animateVehicles(metadata, delta)
           \* animatePlayer: an empty queue stops the clock
           idle == movesQueue = <<>>
           elapsed == IF moveRunning
                      THEN (IF moveElapsed + delta >= stepTime THEN stepTime
                            ELSE moveElapsed + delta)
                      ELSE 0
           done == ~idle /\ elapsed >= stepTime
           pos == IF idle THEN [x |-> playerX, y |-> playerY]
                  ELSE setPosition(currentRow, currentTile, Head(movesQueue), elapsed)
           after == IF done THEN stepCompleted(Committed, Head(movesQueue)) ELSE Committed
       IN  /\ moveRunning' = (~idle /\ ~done)
           /\ moveElapsed' = IF idle THEN moveElapsed ELSE elapsed
           /\ playerX' = pos.x
           /\ playerY' = pos.y
           /\ movesQueue' = IF done THEN Tail(movesQueue) ELSE movesQueue
           /\ currentRow' = after.rowIndex
           /\ currentTile' = after.tileIndex
           /\ IF done /\ NeedsRows(after.rowIndex, moved)
              THEN \E newMetadata \in generateRows(BatchSize) :
                       metadata' = moved \o newMetadata
              ELSE metadata' = moved
           /\ score' = IF done THEN after.rowIndex ELSE score
           /\ animationLoop' = ~controller_hitTest(metadata', movesQueue', currentRow',
                                                   playerX', playerY')
           /\ rejected' = "none"
           /\ stepped' = done
           /\ animated' = (~idle /\ ~done)
           /\ UNCHANGED <<pressed, gen, aframe>>

\* onSelectStart: the trigger restarts a game that is over (initializeGame,
\* setAnimationLoop(animate)) and queues a forward move otherwise
controller_onSelectStart ==
    IF ~animationLoop
    THEN /\ currentRow' = 0
         /\ currentTile' = 0
         /\ movesQueue' = <<>>
         /\ playerX' = 0
         /\ playerY' = 0
         /\ metadata' \in generateRows(BatchSize)
         /\ score' = 0
         /\ animationLoop' = TRUE
         /\ rejected' = "none"
         /\ stepped' = FALSE
         /\ animated' = FALSE
         /\ UNCHANGED <<moveRunning, moveElapsed, pressed, gen, aframe>>
    ELSE /\ Len(movesQueue) < MaxQueue
         /\ calculateFinalPosition(Committed, Append(movesQueue, "forward")).rowIndex
                <= MaxRow
         /\ controller_queueMove("forward")

controller_Frame == \E delta \in Deltas : controller_animate(delta)

NextController == controller_onSelectStart \/ controller_Frame

SpecController == Init /\ [][NextController]_vars

(***************************************************************************)
(* The A-Frame variant (src/unnamed/part_001).  Lengths of this variant    *)
(* are in 1/300 of a world unit (its tile is 4 units wide, a step takes    *)
(* 0.3 s).  Every frame runs the tick of player-mover, of vehicle-animator *)
(* and of hit-detector, in the order in which the components are attached. *)
(***************************************************************************)
aframe_tileSize == 1200         \* tileSize = 4
aframe_stepTime == 3            \* this.stepTime = 0.3
aframe_timeout == 10            \* setTimeout(..., 1000)
aframe_playerHalf == 150        \* playerTileSize = 1
aframe_carHalfLength == 225     \* mainBody width 1.5
aframe_carHalfDepth == 105      \* mainBody depth 0.7

aframe_beginningOfRow == (minTileIndex - 2) * aframe_tileSize
aframe_endOfRow == (maxTileIndex + 2) * aframe_tileSize

\* createCar: a vehicle starts on the centre of its initial lane (trucks are
\* built by createCar as well)
aframe_createCar(rowData) ==
    IF rowData.type \in {"car", "truck"}
    THEN [rowData EXCEPT !.vehicles =
             [i \in 1..Len(rowData.vehicles) |->
                 [rowData.vehicles[i] EXCEPT
                     !.x = rowData.vehicles[i].initialTileIndex * aframe_tileSize]]]
    ELSE rowData

\* addRows: generateRows and one element per row and vehicle
aframe_addRows(amount) ==
    {[i \in 1..amount |-> aframe_createCar(rows[i])] : rows \in generateRows(amount)}

aframe_endsUpInValidPosition(md, currentPosition, moves) ==
    LET finalPosition == calculateFinalPosition(currentPosition, moves)
    IN  /\ ~(\/ finalPosition.rowIndex < 0
             \/ finalPosition.tileIndex < minTileIndex
             \/ finalPosition.tileIndex > maxTileIndex)
        /\ ~HitsTree(md, finalPosition)

\* startMove: the target is one tile from the committed position
aframe_startMove(direction) ==
    [x |-> currentTile * aframe_tileSize
             + (IF direction = "right" THEN aframe_tileSize ELSE 0)
             - (IF direction = "left" THEN aframe_tileSize ELSE 0),
     y |-> currentRow * aframe_tileSize
             + (IF direction = "forward" THEN aframe_tileSize ELSE 0)
             - (IF direction = "backward" THEN aframe_tileSize ELSE 0)]

\* onPlayerMove: refused when invalid or while a move is running; an
\* admitted move is started at once
aframe_onPlayerMove(direction) ==
    LET isValidMove == aframe_endsUpInValidPosition(metadata, Committed,
                                                    Append(movesQueue, direction))
        admitted == isValidMove /\ ~moveRunning
    IN  /\ movesQueue' = IF admitted THEN Append(movesQueue, direction) ELSE movesQueue
        /\ moveRunning' = (moveRunning \/ admitted)
        /\ moveElapsed' = IF admitted THEN 0 ELSE moveElapsed
        /\ aframe' = IF admitted
                     THEN [aframe EXCEPT !.startPosition = [x |-> playerX, y |-> playerY],
                                         !.targetPosition = aframe_startMove(Head(movesQueue'))]
                     ELSE aframe
        /\ rejected' = IF admitted THEN "none" ELSE direction
        /\ stepped' = FALSE
        /\ UNCHANGED <<metadata, currentRow, currentTile, playerX, playerY,
                       animationLoop, score, animated, pressed, gen>>

\* lerpVectors(startPosition, targetPosition, progress)
aframe_lerp(start, target, elapsed) == start + ((target - start) * elapsed) \div aframe_stepTime

\* tick of vehicle-animator: advance, then wrap a vehicle that is beyond the
\* end of its row
aframe_MoveVehicle(rowData, v, delta) ==
    LET travel == rowData.speed * delta * 30
    IN  IF rowData.direction
        THEN [v EXCEPT !.x = IF v.x + travel > aframe_endOfRow THEN aframe_beginningOfRow
                             ELSE v.x + travel]
        ELSE [v EXCEPT !.x = IF v.x - travel < aframe_beginningOfRow THEN aframe_endOfRow
                             ELSE v.x - travel]

aframe_animateVehicles(md, delta) ==
    [r \in 1..Len(md) |->
        IF md[r].type \in {"car", "truck"}
        THEN [md[r] EXCEPT !.vehicles =
                 [i \in 1..Len(md[r].vehicles) |->
                     aframe_MoveVehicle(md[r], md[r].vehicles[i], delta)]]
        ELSE md[r]]

\* tick of hit-detector: the vehicles of the committed row whose box meets
\* the box of the player; each of them schedules one initializeGame
aframe_hits(md, row, px, py) ==
    LET r == RowAt(md, row)
    IN  IF r = <<>> \/ r[1].type \notin {"car", "truck"} THEN {}
        ELSE {i \in 1..Len(r[1].vehicles) :
                 /\ Abs(px - r[1].vehicles[i].x) <= aframe_playerHalf + aframe_carHalfLength
                 /\ Abs(py - row * aframe_tileSize) <= aframe_playerHalf + aframe_carHalfDepth}

\* one frame: the ticks of player-mover, vehicle-animator and hit-detector
aframe_tick(delta) ==
    /\ \A i \in 1..Len(aframe.timers) : aframe.timers[i] >= 0
    /\ LET \* player-mover
           elapsed == IF moveElapsed + delta >= aframe_stepTime THEN aframe_stepTime
                      ELSE moveElapsed + delta
           done == moveRunning /\ elapsed >= aframe_stepTime
           shifted == Shift(movesQueue)
           after == IF done THEN ApplyMove(Committed, shifted.direction) ELSE Committed
           pos == IF ~moveRunning THEN [x |-> playerX, y |-> playerY]
                  ELSE IF done
                       THEN [x |-> after.tileIndex * aframe_tileSize,
                             y |-> after.rowIndex * aframe_tileSize]
                       ELSE [x |-> aframe_lerp(aframe.startPosition.x,
                                               aframe.targetPosition.x, elapsed),
                             y |-> aframe_lerp(aframe.startPosition.y,
                                               aframe.targetPosition.y, elapsed)]
           \* addRows at the end of the tick of player-mover
           grown == IF done /\ NeedsRows(after.rowIndex, metadata)
                    THEN {metadata \o newMetadata : newMetadata \in aframe_addRows(BatchSize)}
                    ELSE {metadata}
       IN  /\ moveRunning' = (moveRunning /\ ~done)
           /\ moveElapsed' = IF ~moveRunning THEN moveElapsed
                             ELSE IF done THEN 0 ELSE elapsed
           /\ movesQueue' = IF done THEN shifted.rest ELSE movesQueue
           /\ currentRow' = after.rowIndex
           /\ currentTile' = after.tileIndex
           /\ score' = IF done THEN after.rowIndex ELSE score
           /\ playerX' = pos.x
           /\ playerY' = pos.y
           \* vehicle-animator
           /\ \E md \in grown : metadata' = aframe_animateVehicles(md, delta)
           \* hit-detector
           /\ aframe' = [aframe EXCEPT !.timers =
                            [i \in 1..Len(aframe.timers) |-> aframe.timers[i] - delta]
                            \o [i \in 1..Cardinality(aframe_hits(metadata', currentRow',
                                                                 playerX', playerY'))
                                  |-> aframe_timeout]]
           /\ rejected' = "none"
           /\ stepped' = done
           /\ animated' = (moveRunning /\ ~done)
           /\ UNCHANGED <<animationLoop, pressed, gen>>

\* a setTimeout callback that is due: initializeGame
aframe_initializeGame ==
    /\ aframe.timers # <<>>
    /\ Head(aframe.timers) <= 0
    /\ aframe' = [aframe EXCEPT !.timers = Tail(@)]
    /\ currentRow' = 0
    /\ currentTile' = 0
    /\ movesQueue' = <<>>
    /\ playerX' = 0
    /\ playerY' = 0
    /\ metadata' \in aframe_addRows(BatchSize)
    /\ score' = 0
    /\ rejected' = "none"
    /\ stepped' = FALSE
    /\ animated' = FALSE
    /\ UNCHANGED <<moveRunning, moveElapsed, animationLoop, pressed, gen>>

\* frames of 0.2 s
AFrameDeltas == {2}

\* an arrow key, within the bounds of the model
aframe_Input ==
    \E direction \in Directions :
        /\ calculateFinalPosition(Committed, Append(movesQueue, direction)).rowIndex
               <= MaxRow
        /\ aframe_onPlayerMove(direction)

aframe_Frame == \E delta \in AFrameDeltas : aframe_tick(delta)

NextAFrame == aframe_Input \/ aframe_Frame \/ aframe_initializeGame

\* the scene has been loaded and initializeGame has run
InitAFrame ==
    /\ metadata \in aframe_addRows(BatchSize)
    /\ currentRow = 0
    /\ currentTile = 0
    /\ movesQueue = <<>>
    /\ playerX = 0
    /\ playerY = 0
    /\ moveRunning = FALSE
    /\ moveElapsed = 0
    /\ animationLoop = TRUE
    /\ score = 0
    /\ rejected = "none"
    /\ stepped = FALSE
    /\ animated = FALSE
    /\ pressed = 0
    /\ aframe = AFrameIdle
    /\ gen = GenIdle(<<>>)

SpecAFrame == InitAFrame /\ [][NextAFrame]_vars

(***************************************************************************)
(* Properties.  They are stated with their own vocabulary (counts of moves *)
(* in the queue, direct look-ups in the timeline) and not with the         *)
(* operators of the model above.                                           *)
(***************************************************************************)
Count(moves, direction) ==
    Cardinality({i \in 1..Len(moves) : moves[i] = direction})

\* the position reached from the committed one by the given moves
ProjectedRow(moves) == currentRow + Count(moves, "forward") - Count(moves, "backward")
ProjectedTile(moves) == currentTile + Count(moves, "right") - Count(moves, "left")

\* the row stored for rowIndex is a forest with a tree on tileIndex
TreeAt(md, rowIndex, tileIndex) ==
    /\ rowIndex \in 1..Len(md)
    /\ md[rowIndex].type = "forest"
    /\ \E i \in 1..Len(md[rowIndex].trees) : md[rowIndex].trees[i] = tileIndex

InBounds(rowIndex, tileIndex) ==
    rowIndex >= 0 /\ tileIndex >= minTileIndex /\ tileIndex <= maxTileIndex

\* the step is an admission: only queueMove makes the queue longer
Admission == Len(movesQueue') = Len(movesQueue) + 1

\* the step is a refusal of direction rejected'
Refusal == rejected' # "none"

\* C1: a move is never admitted when its projected target (committed
\* position, then all pending moves, then the new move) is a tile with a tree
\* in the forest row stored for the target row; whatever the direction.
C1_NoAdmissionOntoTree ==
    [][Admission =>
         ~TreeAt(metadata, ProjectedRow(movesQueue'), ProjectedTile(movesQueue'))]_vars

\* a backward move has just been refused because its target holds a tree
C1_Witness ==
    /\ rejected = "backward"
    /\ TreeAt(metadata, ProjectedRow(movesQueue) - 1, ProjectedTile(movesQueue))

\* C2: the committed position is never a tile occupied by a tree of the row
\* stored for the committed row.
C2_CommittedNeverOnTree == ~TreeAt(metadata, currentRow, currentTile)

\* C3: a move is never admitted when its projected lane is outside
\* [minTileIndex, maxTileIndex] or its projected row is negative.
C3_NoAdmissionOutOfBounds ==
    [][Admission =>
         InBounds(ProjectedRow(movesQueue'), ProjectedTile(movesQueue'))]_vars

\* a left move behind pending moves has just been refused at the left edge
C3_Witness ==
    /\ rejected = "left"
    /\ movesQueue # <<>>
    /\ ProjectedTile(movesQueue) = minTileIndex

\* C4: the committed lane stays within [minTileIndex, maxTileIndex] and the
\* committed row is never negative.
C4_CommittedInBounds == InBounds(currentRow, currentTile)

\* the player has been committed to the rightmost lane of a generated row
C4_Witness == currentTile = maxTileIndex /\ currentRow >= 1

\* C5: the verdict of queueMove is the validity of the position obtained by
\* folding the pending moves and then the new move over the committed
\* position: an admitted move has a valid folded target, a refused move an
\* invalid one.
C5_VerdictUsesQueue ==
    [][/\ Admission =>
            /\ InBounds(ProjectedRow(movesQueue'), ProjectedTile(movesQueue'))
            /\ ~TreeAt(metadata, ProjectedRow(movesQueue'), ProjectedTile(movesQueue'))
       /\ Refusal =>
            LET moves == Append(movesQueue, rejected')
            IN  \/ ~InBounds(ProjectedRow(moves), ProjectedTile(moves))
                \/ TreeAt(metadata, ProjectedRow(moves), ProjectedTile(moves))]_vars

\* a move has just been refused behind pending moves although the same move
\* from the committed position alone leads to a valid tile
C5_Witness ==
    /\ rejected # "none"
    /\ movesQueue # <<>>
    /\ InBounds(ProjectedRow(<<rejected>>), ProjectedTile(<<rejected>>))
    /\ ~TreeAt(metadata, ProjectedRow(<<rejected>>), ProjectedTile(<<rejected>>))

\* C6: a refused move changes neither the queue nor the committed position
\* nor the timeline; an admitted move is appended at the tail and changes
\* nothing else.
C6_RefusalChangesNothing ==
    [][/\ Refusal => UNCHANGED <<movesQueue, currentRow, currentTile, metadata,
                                 playerX, playerY, animationLoop>>
       /\ Admission =>
            /\ SubSeq(movesQueue', 1, Len(movesQueue)) = movesQueue
            /\ UNCHANGED <<currentRow, currentTile, metadata>>]_vars

\* a right move has just been refused with the projected lane at maxTileIndex
C6_Witness ==
    /\ rejected = "right"
    /\ ProjectedTile(movesQueue) = maxTileIndex

\* the footprint of a vehicle of a returned lane row
Footprint(type, tileIndex) ==
    IF type = "car" THEN (tileIndex - 1)..(tileIndex + 1)
    ELSE (tileIndex - 2)..(tileIndex + 2)

\* C7: no two vehicles of a generated car lane or truck lane have
\* overlapping initial footprints.
C7_NoFootprintOverlap ==
    \A k \in 1..Len(gen.row) :
        LET row == gen.row[k]
        IN  row.type \in {"car", "truck"} =>
              \A i, j \in 1..Len(row.vehicles) :
                  i # j => Footprint(row.type, row.vehicles[i].initialTileIndex)
                           \cap Footprint(row.type, row.vehicles[j].initialTileIndex) = {}

\* C8: a generated forest row has exactly 4 trees, each on a lane of
\* [minTileIndex, maxTileIndex], no two on the same lane.
C8_ForestTreesDistinct ==
    \A k \in 1..Len(gen.row) :
        LET row == gen.row[k]
        IN  row.type = "forest" =>
              /\ Len(row.trees) = 4
              /\ \A i \in 1..Len(row.trees) : row.trees[i] \in -8..8
              /\ \A i, j \in 1..Len(row.trees) : i # j => row.trees[i] # row.trees[j]

\* the generator has returned a forest with trees on neighbouring lanes
C8_Witness ==
    /\ gen.row # <<>>
    /\ gen.row[1].type = "forest"
    /\ \E i, j \in 1..Len(gen.row[1].trees) :
          gen.row[1].trees[i] + 1 = gen.row[1].trees[j]

\* the player box and the box of some vehicle of the committed row overlap
Overlap(md, rowIndex, px, py) ==
    /\ rowIndex \in 1..Len(md)
    /\ md[rowIndex].type \in {"car", "truck"}
    /\ \E i \in 1..Len(md[rowIndex].vehicles) :
          LET vx == md[rowIndex].vehicles[i].x
              length == IF md[rowIndex].type = "car" THEN 60 ELSE 100
              depth == IF md[rowIndex].type = "car" THEN 33 ELSE 35
          IN  /\ px - 21 <= vx + length /\ vx - length <= px + 21
              /\ py - 21 <= 84 * rowIndex + depth /\ 84 * rowIndex - depth <= py + 21

\* C9: a collision is terminal.  A state in which the loop is still
\* installed shows no overlap with a vehicle of the committed row; and once
\* the loop is stopped, every step up to the restart leaves the vehicles, the
\* timeline, the committed position and the player untouched and removes no
\* move from the queue.
C9_TerminalIsOneWay ==
    [][/\ animationLoop' => ~Overlap(metadata', currentRow', playerX', playerY')
       /\ (~animationLoop /\ ~animationLoop') =>
            /\ UNCHANGED <<metadata, currentRow, currentTile, playerX, playerY,
                           moveRunning>>
            /\ Len(movesQueue') >= Len(movesQueue)
            /\ SubSeq(movesQueue', 1, Len(movesQueue)) = movesQueue]_vars

\* the game is over with a step in flight and a move pending
C9_Witness ==
    /\ ~animationLoop
    /\ moveRunning
    /\ movesQueue # <<>>
    /\ Overlap(metadata, currentRow, playerX, playerY)

\* every vehicle of the timeline is where its constructor put it
Fresh(md) ==
    \A r \in 1..Len(md) : \A i \in 1..Len(md[r].vehicles) :
        md[r].vehicles[i].x = 84 * md[r].vehicles[i].initialTileIndex

\* C10: a restart leaves the starting configuration: row 0, lane 0, empty
\* queue, a timeline of exactly one fresh batch, and the loop installed.
\* (The game is only ever over on a row >= 1, so the restart is the step
\* that, with the loop stopped, moves the committed row or installs the loop.)
C10_RestartResets ==
    [][(~animationLoop /\ (animationLoop' \/ currentRow' # currentRow)) =>
         /\ animationLoop'
         /\ currentRow' = 0
         /\ currentTile' = 0
         /\ movesQueue' = <<>>
         /\ playerX' = 0 /\ playerY' = 0
         /\ Len(metadata') = BatchSize
         /\ Fresh(metadata')]_vars

\* the game has been restarted after a collision that stopped a step in
\* flight (the step clock still runs although nothing is pending)
C10_Witness ==
    /\ animationLoop
    /\ moveRunning
    /\ movesQueue = <<>>
    /\ currentRow = 0 /\ currentTile = 0
    /\ Fresh(metadata)

\* the step is the completion of the head move: while the loop is installed
\* only stepCompleted makes the queue shorter
Completion == animationLoop /\ Len(movesQueue') = Len(movesQueue) - 1

\* the step is a restart: with the loop stopped, the loop is installed again
\* or the committed row is moved
Restart == ~animationLoop /\ (animationLoop' \/ currentRow' # currentRow)

\* C11: after every completed step the score shown is the committed row, and
\* the committed row has gone up by one for a forward step, down by one for a
\* backward step and is unchanged for a sideways step, starting from 0 at a
\* restart (so it is the number of forward steps minus the number of backward
\* steps completed since the restart); a step that is neither a completion nor
\* a restart, be it a tick or a refused or admitted move, leaves the score and
\* the committed row as they are.
C11_ScoreIsNetProgress ==
    [][/\ Completion =>
            /\ currentRow' = currentRow
                             + (IF movesQueue[1] = "forward" THEN 1 ELSE 0)
                             - (IF movesQueue[1] = "backward" THEN 1 ELSE 0)
            /\ score' = currentRow'
       /\ Restart => (currentRow' = 0 /\ score' = 0)
       /\ (~Completion /\ ~Restart) => UNCHANGED <<score, currentRow>>]_vars

\* a step has just been completed with the score at 2
C11_Witness == stepped /\ score = 2 /\ currentRow = 2

\* lane 0 of the rows the presses lead over carries no tree
NoTreeAhead == \A rowIndex \in 1..Presses : ~TreeAt(metadata, rowIndex, 0)

\* the presses have all been made and no move is pending any more
PressesDone == pressed = Presses /\ movesQueue = <<>>

\* C12 as stated: from the restart state, once forward has been pressed
\* Presses times and the resulting steps have completed, the score is Presses
\* and the committed lane is 0, whatever the timeline.
C12_ForwardPressesScore == PressesDone => (score = Presses /\ currentTile = 0)

\* C12 amended: the same, provided lane 0 of rows 1..Presses carries no tree.
C12_ForwardPressesScoreIfFree ==
    (PressesDone /\ NoTreeAhead) =>
        (score = Presses /\ currentRow = Presses /\ currentTile = 0)

\* the presses have been made on a free lane 0 and the steps have completed
\* with the game still running
C12_Witness == PressesDone /\ NoTreeAhead /\ score = Presses /\ animationLoop

\* what a row is apart from the current offsets of its vehicles
Static(row) ==
    [type |-> row.type, trees |-> row.trees, direction |-> row.direction,
     speed |-> row.speed,
     lanes |-> [i \in 1..Len(row.vehicles) |-> row.vehicles[i].initialTileIndex]]

\* the ensure-ahead test of stepCompleted for a committed row and a timeline length
AheadDue(rowIndex, length) == rowIndex > length - Lookahead

\* C13: the ensure-ahead test is idempotent.  A completed step appends one
\* batch exactly when the test is true for the new committed row, and nothing
\* otherwise; the rows generated before keep their index and their content;
\* and after every step the test is false for the committed row, so that
\* running it again appends nothing.
C13_EnsureAheadIdempotent ==
    [][/\ Completion =>
            /\ Len(metadata') = Len(metadata)
                                + (IF AheadDue(currentRow', Len(metadata))
                                   THEN BatchSize ELSE 0)
            /\ \A rowIndex \in 1..Len(metadata) :
                   Static(metadata'[rowIndex]) = Static(metadata[rowIndex])
       /\ ~AheadDue(currentRow', Len(metadata'))]_vars

\* a step has just been completed on which a second batch was appended
C13_Witness ==
    /\ stepped
    /\ Len(metadata) = 2 * BatchSize
    /\ AheadDue(currentRow, BatchSize)

\* the timeline holds a row for rowIndex
Generated(rowIndex) == rowIndex \in 1..Len(metadata)

\* C14: the timeline stays ahead of the player.  Its length is a positive
\* multiple of the batch size and the committed row is at most the length
\* minus the lookahead; hence, on a committed row >= 1, the row hitTest looks
\* up and the rows validation looks up for a move to a neighbouring tile
\* (forward, sideways, and backward unless that leads to the start row 0)
\* have been generated.
C14_TimelineAhead ==
    /\ Len(metadata) > 0
    /\ Len(metadata) % BatchSize = 0
    /\ currentRow <= Len(metadata) - Lookahead
    /\ currentRow >= 1 =>
         /\ Generated(currentRow)
         /\ Generated(currentRow + 1)
         /\ currentRow >= 2 => Generated(currentRow - 1)

\* a step has just taken the player as far as the lookahead allows without
\* a new batch
C14_Witness ==
    /\ stepped
    /\ currentRow >= 1
    /\ currentRow = Len(metadata) - Lookahead

\* the wrap boundaries, in half units
PositiveBoundary == 2 * (maxTileIndex + 2) * tileSize
NegativeBoundary == 2 * (minTileIndex - 2) * tileSize

\* C15 as stated: a vehicle of a row with direction = true and speed = 100
\* whose offset is exactly the positive wrap boundary is set to the negative
\* wrap boundary by one tick with deltaTime = 1.
C15_WrapOnBoundary ==
    [][\A r \in 1..Len(metadata) : \A i \in 1..Len(metadata[r].vehicles) :
          (/\ metadata[r].direction
           /\ metadata[r].speed = 100
           /\ metadata[r].vehicles[i].x = PositiveBoundary)
          => metadata'[r].vehicles[i].x = NegativeBoundary]_vars

\* C15 amended: one tick with deltaTime = 1 sets a vehicle to the opposite
\* boundary only when its offset is beyond the boundary of its direction; a
\* vehicle at or before that boundary, exactly on it included, advances by
\* speed * 1 in its direction.
C15_WrapBeyondBoundary ==
    [][\A r \in 1..Len(metadata) : \A i \in 1..Len(metadata[r].vehicles) :
          LET x == metadata[r].vehicles[i].x
              speed == metadata[r].speed
          IN  metadata'[r].vehicles[i].x =
                 IF metadata[r].direction
                 THEN (IF x > PositiveBoundary THEN NegativeBoundary ELSE x + 2 * speed)
                 ELSE (IF x < NegativeBoundary THEN PositiveBoundary ELSE x - 2 * speed)]_vars

\* one frame has passed (the second car is 1 s from its initial lane) and it
\* has taken the first car of a lane with direction = true and speed = 100
\* from the positive boundary 100 units further
C15_Witness ==
    /\ metadata[1].direction
    /\ metadata[1].speed = 100
    /\ metadata[1].vehicles[1].x = PositiveBoundary + 200
    /\ metadata[1].vehicles[2].x = 84 * metadata[1].vehicles[2].initialTileIndex + 200

\* the head move has been applied to the committed position
HeadApplied ==
    /\ currentRow' = currentRow + Count(<<movesQueue[1]>>, "forward")
                                - Count(<<movesQueue[1]>>, "backward")
    /\ currentTile' = currentTile + Count(<<movesQueue[1]>>, "right")
                                  - Count(<<movesQueue[1]>>, "left")

\* the step is a tick of the loop: with the loop installed, every step that
\* neither admits nor refuses a move
IsTick == animationLoop /\ ~Admission /\ ~Refusal

\* C16 as stated, in the form a finite run refutes: there is no cancellation
\* path, i.e. a move only ever leaves the queue as the head, popped with its
\* delta applied to the committed position.
C16_NoCancellation ==
    [][Len(movesQueue') < Len(movesQueue) =>
         (movesQueue' = Tail(movesQueue) /\ HeadApplied)]_vars

\* C16 amended: a move leaves the queue either as the head, popped by a tick
\* with its delta applied, or together with all pending moves when a restart
\* empties the queue; and while the loop is installed every tick with a move
\* pending makes progress on the head (starts the step clock, lets the step
\* time go on, or completes the step).
C16_CompletesUnlessRestarted ==
    [][/\ Len(movesQueue') < Len(movesQueue) =>
            \/ (animationLoop /\ movesQueue' = Tail(movesQueue) /\ HeadApplied)
            \/ (~animationLoop /\ animationLoop' /\ movesQueue' = <<>>
                /\ currentRow' = 0 /\ currentTile' = 0)
       /\ (IsTick /\ movesQueue # <<>>) =>
            \/ (~moveRunning /\ moveRunning')
            \/ (moveRunning /\ moveRunning' /\ moveElapsed' > moveElapsed)
            \/ (moveRunning /\ Completion)]_vars

\* a step has just been completed by the tick that ended the game, with
\* further admitted moves still pending
C16_Witness == stepped /\ ~animationLoop /\ movesQueue # <<>>

\* C17: the order within a tick is vehicles, then the step, then collision
\* detection.  On every tick each vehicle has been moved, and the loop stays
\* installed exactly when there is no overlap between the player as the tick
\* leaves it and the vehicles of the committed row as the tick leaves them;
\* on the tick that completes a step that is the new committed row with the
\* offsets of that same tick.
C17_TickOrder ==
    [][IsTick =>
         /\ \A r \in 1..Len(metadata) : \A i \in 1..Len(metadata[r].vehicles) :
                metadata'[r].vehicles[i].x # metadata[r].vehicles[i].x
         /\ animationLoop' <=> ~Overlap(metadata', currentRow', playerX', playerY')]_vars

\* the tick that completed the last pending step has found the player under
\* a vehicle of the new committed row
C17_Witness ==
    /\ stepped
    /\ ~animationLoop
    /\ movesQueue = <<>>
    /\ playerY = 84 * currentRow
    /\ Overlap(metadata, currentRow, playerX, playerY)

\* the row stored for rowIndex is a car lane or a truck lane
RoadAt(md, rowIndex) ==
    rowIndex \in 1..Len(md) /\ md[rowIndex].type \in {"car", "truck"}

\* some vehicle of the row stored for rowIndex is over the centre of the tile
VehicleOver(md, rowIndex, tileIndex) ==
    \E i \in 1..Len(md[rowIndex].vehicles) :
        LET vx == md[rowIndex].vehicles[i].x
            length == IF md[rowIndex].type = "car" THEN 60 ELSE 100
        IN  vx - length <= 84 * tileIndex /\ 84 * tileIndex <= vx + length

\* C18: vehicles never block a step.  No move is refused whose projected
\* target is an in-bounds lane of a car lane or truck lane, wherever the
\* vehicles of that lane are.
C18_VehiclesNeverBlock ==
    [][Refusal =>
         LET moves == Append(movesQueue, rejected')
         IN  ~(/\ InBounds(ProjectedRow(moves), ProjectedTile(moves))
               /\ RoadAt(metadata, ProjectedRow(moves)))]_vars

\* a move has just been admitted (no tick has run since) whose target tile
\* on a lane row lies under a vehicle
C18_Witness ==
    /\ animationLoop /\ ~moveRunning /\ ~stepped
    /\ rejected = "none"
    /\ movesQueue # <<>>
    /\ RoadAt(metadata, ProjectedRow(movesQueue))
    /\ VehicleOver(metadata, ProjectedRow(movesQueue), ProjectedTile(movesQueue))

\* C19: between restarts the timeline is append-only and its rows are
\* immutable apart from the vehicle offsets.  Every step that is not a
\* restart (tick, step completion, admitted or refused move) keeps every
\* generated row at its index with its type, tree lanes, direction, speed,
\* number of vehicles and initial lanes, and removes no row.
C19_TimelineAppendOnly ==
    [][~Restart =>
         /\ Len(metadata') >= Len(metadata)
         /\ \A rowIndex \in 1..Len(metadata) :
                Static(metadata'[rowIndex]) = Static(metadata[rowIndex])]_vars

\* a second batch has been appended while, in the first one, a vehicle has
\* been wrapped to the boundary it restarts from
C19_Witness ==
    /\ Len(metadata) > BatchSize
    /\ \E rowIndex \in 1..BatchSize : \E i \in 1..Len(metadata[rowIndex].vehicles) :
          /\ metadata[rowIndex].vehicles[i].x
               = IF metadata[rowIndex].direction THEN NegativeBoundary ELSE PositiveBoundary

\* C20: the row generator bounds the retries of its rejection sampling: once
\* MaxRetries passes of a sampling loop in a row have been thrown away, the
\* generator has stopped with an error instead of drawing again.
C20_RetriesBounded == gen.retries >= MaxRetries => gen.type = "error"

\* the change of the committed position a move stands for, as <<row, lane>>
Delta(direction) ==
    CASE direction = "forward" -> <<1, 0>>
      [] direction = "backward" -> <<-1, 0>>
      [] direction = "left" -> <<0, -1>>
      [] direction = "right" -> <<0, 1>>

\* C21: moves are committed in FIFO order.  A completed step removes the
\* head of the queue and nothing else and moves the committed position by the
\* head's delta (one coordinate by 1, the other unchanged); an admitted move
\* goes behind the pending ones; and apart from a restart nothing else moves
\* the committed position.
C21_FifoCommit ==
    [][/\ Completion =>
            /\ movesQueue' = SubSeq(movesQueue, 2, Len(movesQueue))
            /\ <<currentRow' - currentRow, currentTile' - currentTile>>
                 = Delta(movesQueue[1])
       /\ Admission =>
            \A i \in 1..Len(movesQueue) : movesQueue'[i] = movesQueue[i]
       /\ (~Completion /\ ~Restart) => UNCHANGED <<currentRow, currentTile>>]_vars

\* a step has just been completed off the starting lane and off the starting
\* row, with the game running and one more move pending
C21_Witness ==
    /\ stepped /\ animationLoop
    /\ Len(movesQueue) = 1
    /\ currentRow >= 1 /\ currentTile # 0

\* C22: every move's animation starts with elapsed time 0 and the move is
\* committed only on a later tick, when the step time has elapsed since its
\* own animation started.  The first tick that animates a head leaves the
\* step clock at 0 and completes nothing; a step is only completed for a
\* head that an earlier tick has animated, with the elapsed time at stepTime.
C22_AnimationStartsAtZero ==
    [][/\ (IsTick /\ movesQueue # <<>> /\ ~animated) =>
            (moveElapsed' = 0 /\ ~Completion)
       /\ Completion => (animated /\ moveElapsed' >= stepTime)]_vars

\* the distance between the committed positions before and after the step
Moved ==
    (IF currentRow' >= currentRow THEN currentRow' - currentRow ELSE currentRow - currentRow')
    + (IF currentTile' >= currentTile THEN currentTile' - currentTile
       ELSE currentTile - currentTile')

\* C23: at most one move is committed per tick, and chained moves run back
\* to back.  A tick takes at most one move off the queue and moves the
\* committed position by at most one tile; a tick that finds a move pending
\* and the step clock stopped (as it is after a completed step) starts the
\* clock at 0 for the head; and no tick leaves a move pending with no
\* animation in flight unless it has just completed a step.
C23_OneCommitPerTick ==
    [][IsTick =>
         /\ Len(movesQueue') >= Len(movesQueue) - 1
         /\ Moved <= 1
         /\ (movesQueue # <<>> /\ ~moveRunning) =>
               (moveRunning' /\ moveElapsed' = 0 /\ movesQueue' = movesQueue)
         /\ (movesQueue' # <<>> /\ ~moveRunning') => Completion]_vars

\* after at least one committed step, the head is in flight at progress 0
\* with a further move waiting behind it
C23_Witness ==
    /\ animationLoop /\ moveRunning /\ animated
    /\ moveElapsed = 0
    /\ Len(movesQueue) = 2
    /\ ~(currentRow = 0 /\ currentTile = 0)

\* C24: input that arrives while the game is over cannot affect the next
\* game.  While the loop is stopped, a step other than the restart changes
\* nothing but the queue (which only grows) and commits nothing; and the
\* restart leaves no move pending, whatever was admitted in between, with the
\* player on row 0, lane 0.
C24_TerminalInputDiscarded ==
    [][~animationLoop =>
         IF Restart
         THEN movesQueue' = <<>> /\ currentRow' = 0 /\ currentTile' = 0
              /\ playerX' = 0 /\ playerY' = 0
         ELSE /\ UNCHANGED <<currentRow, currentTile, playerX, playerY, score,
                             metadata, moveRunning, moveElapsed>>
              /\ Len(movesQueue') >= Len(movesQueue)]_vars

\* the game is over and a move has been admitted since the tick that ended
\* it (that tick left no move pending that it had animated or stepped over)
C24_Witness ==
    /\ ~animationLoop
    /\ ~animated /\ ~stepped
    /\ rejected = "none"
    /\ movesQueue # <<>>

\* the least distance between the initial lanes of two vehicles of a row
Spacing(type) == IF type = "car" THEN 2 ELSE 3

\* C25: a generated car lane has exactly 3 vehicles and a generated truck
\* lane exactly 2; every initialTileIndex lies in [minTileIndex,
\* maxTileIndex]; the initial lanes of two vehicles of a car lane differ by
\* at least 2 and those of a truck lane by at least 3.
C25_VehicleSpacing ==
    \A k \in 1..Len(gen.row) :
        LET row == gen.row[k]
        IN  row.type \in {"car", "truck"} =>
              /\ Len(row.vehicles) = (IF row.type = "car" THEN 3 ELSE 2)
              /\ \A i \in 1..Len(row.vehicles) :
                     /\ row.vehicles[i].initialTileIndex >= -8
                     /\ row.vehicles[i].initialTileIndex <= 8
              /\ \A i, j \in 1..Len(row.vehicles) :
                     i # j => \/ row.vehicles[i].initialTileIndex
                                   - row.vehicles[j].initialTileIndex >= Spacing(row.type)
                              \/ row.vehicles[j].initialTileIndex
                                   - row.vehicles[i].initialTileIndex >= Spacing(row.type)

\* the generator has returned a truck lane whose trucks start exactly 3
\* lanes apart, one of them on the outermost lane
C25_Witness ==
    /\ gen.row # <<>>
    /\ gen.row[1].type = "truck"
    /\ gen.row[1].vehicles[1].initialTileIndex = 8
    /\ gen.row[1].vehicles[2].initialTileIndex = 5

\* a sampling loop of the running generator has still to accept a lane
MustSample == gen.type # "idle" /\ Len(gen.tiles) < Amount(gen.type)

\* some lane of [minTileIndex, maxTileIndex] is open wherever a lane must
\* be sampled
FreeLaneExists ==
    MustSample => \E tileIndex \in Tiles : tileIndex \notin gen.occupiedTiles

\* C26: row generation cannot hang: wherever a lane must be sampled, some
\* lane of [minTileIndex, maxTileIndex] is not in the occupied set, and with
\* fair sampling a generator that has been started returns its row.
C26_CannotHang ==
    /\ []FreeLaneExists
    /\ (gen.type # "idle") ~> (gen.type = "idle")

\* the car generator is drawing its last car with as many lanes closed as
\* two cars can close, and has thrown draws away
C26_Witness ==
    /\ gen.type = "car"
    /\ Len(gen.tiles) = 2
    /\ Cardinality(gen.occupiedTiles \cap Tiles) = 6
    /\ gen.retries = MaxRetries

\* C27: in the teleport variant a tick that finds the queue non-empty removes
\* exactly its head and applies the delta of that same move to the committed
\* position.
C27_TeleportAppliesHead ==
    [][stepped' =>
         /\ movesQueue' = SubSeq(movesQueue, 2, Len(movesQueue))
         /\ <<currentRow' - currentRow, currentTile' - currentTile>>
                = Delta(movesQueue[1])]_vars

\* C28: in the teleport variant the committed row is never negative and the
\* committed lane stays within [minTileIndex, maxTileIndex].
C28_TeleportCommittedInBounds ==
    /\ currentRow >= 0
    /\ currentTile >= -8
    /\ currentTile <= 8

\* the body of the player and the body of some vehicle of the committed row
\* overlap (controller variant: body 15 x 15, car body 60 x 30, truck cargo
\* 70 x 35 lying 15 behind the centre of the truck; half units)
BodyOverlap(md, rowIndex, px, py) ==
    /\ rowIndex \in 1..Len(md)
    /\ md[rowIndex].type \in {"car", "truck"}
    /\ \E i \in 1..Len(md[rowIndex].vehicles) :
          LET vx == md[rowIndex].vehicles[i].x
              centre == IF md[rowIndex].type = "car" THEN vx
                        ELSE IF md[rowIndex].direction THEN vx - 30 ELSE vx + 30
              length == IF md[rowIndex].type = "car" THEN 60 ELSE 70
              depth == IF md[rowIndex].type = "car" THEN 30 ELSE 35
          IN  /\ px - 15 <= centre + length /\ centre - length <= px + 15
              /\ py - 15 <= 84 * rowIndex + depth /\ 84 * rowIndex - depth <= py + 15

\* C30: in the controller variant collision detection runs on every tick,
\* also with a move queued or in flight: a tick that ends with the body of
\* the player overlapping a vehicle of the committed row stops the loop.
C30_DetectionOnEveryTick ==
    [][(IsTick /\ BodyOverlap(metadata', currentRow', playerX', playerY'))
          => ~animationLoop']_vars

\* restarts that a detected collision has scheduled and that have not run yet
PendingRestarts == Len(aframe.timers)

\* C29: in the A-Frame variant a detected collision is terminal.  A
\* collision schedules one restart; while a restart is pending, a step either
\* is that restart or leaves the committed position and every vehicle where
\* they are and signals no further collision.
C29_CollisionIsTerminal ==
    [][/\ PendingRestarts = 0 => PendingRestarts' <= 1
       /\ PendingRestarts > 0 =>
            \/ PendingRestarts' = PendingRestarts - 1
            \/ /\ PendingRestarts' = PendingRestarts
               /\ UNCHANGED <<currentRow, currentTile, metadata>>]_vars

====
